---- MODULE Spec2Model ----
(***************************************************************************)
(* Model of the backtest core of What-if-Simulator:                        *)
(*   backend/src/lib/prices.ts   (getAdjustedSeries and its date helpers)  *)
(*   backend/src/lib/cache.ts    (the LRU/TTL cache it owns)               *)
(*   backend/src/routes/backtest.ts, middleware/validate.ts, lib/errors.ts *)
(*                                                                         *)
(* Strings.  A JavaScript string is modelled by its split on ':' : a       *)
(* non-empty sequence of colon-free atoms.  An atom is either a text of    *)
(* the shape dddd-dd-dd, written [y, m, d], or any other text, written     *)
(* [txt].  Joining strings with ':' is then concatenation of sequences,    *)
(* and a string matches /^\d{4}-\d{2}-\d{2}$/ iff it is one [y, m, d] atom.*)
(*                                                                         *)
(* Dates.  A JavaScript Date is modelled by its epoch time in hours.       *)
(***************************************************************************)
EXTENDS Integers, Sequences, FiniteSets, TLC

DateAtom(y, m, d) == [y |-> y, m |-> m, d |-> d]
TextAtom(s) == [txt |-> s]
Str(atom) == <<atom>>
EmptyStr == Str(TextAtom(""))

IsDateAtom(a) == DOMAIN a = {"y", "m", "d"}

\* /^\d{4}-\d{2}-\d{2}$/ (prices.ts:18, backtest.ts:26-27)
MatchesDateShape(s) == Len(s) = 1 /\ IsDateAtom(s[1])

\* Lexicographic order of two atoms as JavaScript compares the texts:
\* fixed-width digit groups compare as the tuple (y, m, d); a text that
\* starts with a letter sorts after every text that starts with a digit.
AtomLeq(a, b) ==
  IF IsDateAtom(a) /\ IsDateAtom(b)
    THEN \/ a.y < b.y
         \/ a.y = b.y /\ a.m < b.m
         \/ a.y = b.y /\ a.m = b.m /\ a.d <= b.d
    ELSE IF IsDateAtom(a) THEN TRUE
    ELSE IF IsDateAtom(b) THEN FALSE
    ELSE a = b

\* s <= t on strings: atom by atom, a proper prefix sorting first.
RECURSIVE StrLeq(_, _)
StrLeq(s, t) ==
  IF s = <<>> THEN TRUE
  ELSE IF t = <<>> THEN FALSE
  ELSE IF s[1] = t[1] THEN StrLeq(Tail(s), Tail(t))
  ELSE AtomLeq(s[1], t[1])
StrLt(s, t) == StrLeq(s, t) /\ s # t

(***************************************************************************)
(* Calendar arithmetic of Date.UTC / getUTC* (proleptic Gregorian).        *)
(***************************************************************************)
HoursPerDay == 24

DaysFromCivil(y, m, d) ==
  LET yy  == IF m <= 2 THEN y - 1 ELSE y
      era == yy \div 400
      yoe == yy - era * 400
      mp  == IF m > 2 THEN m - 3 ELSE m + 9
      doy == (153 * mp + 2) \div 5 + d - 1
      doe == yoe * 365 + yoe \div 4 - yoe \div 100 + doy
  IN  era * 146097 + doe - 719468

CivilFromDays(z) ==
  LET zz  == z + 719468
      era == zz \div 146097
      doe == zz - era * 146097
      yoe == (doe - doe \div 1460 + doe \div 36524 - doe \div 146096) \div 365
      doy == doe - (365 * yoe + yoe \div 4 - yoe \div 100)
      mp  == (5 * doy + 2) \div 153
      d   == doy - (153 * mp + 2) \div 5 + 1
      m   == IF mp < 10 THEN mp + 3 ELSE mp - 9
      y   == yoe + era * 400 + (IF m <= 2 THEN 1 ELSE 0)
  IN  DateAtom(y, m, d)

\* Date.UTC(year, monthIndex, day, 12, 0, 0): out-of-range month and day
\* values carry into the next (or previous) year and month.
DateUTC(year, monthIndex, day) ==
  LET y == year + (monthIndex \div 12)
      m == (monthIndex % 12) + 1
  IN  (DaysFromCivil(y, m, 1) + (day - 1)) * HoursPerDay + 12

\* toDate: the parsed Date, or the thrown error.
toDate(d) ==
  IF ~MatchesDateShape(d)
    THEN [ok |-> FALSE, status |-> 400, message |-> "Invalid ISO date"]
    ELSE [ok |-> TRUE, t |-> DateUTC(d[1].y, d[1].m - 1, d[1].d)]

\* fmt: Date -> YYYY-MM-DD (UTC)
fmt(t) == Str(CivilFromDays(t \div HoursPerDay))

\* Date.parse of a date-only text, in days since the epoch (the code divides
\* the difference of two results by 86_400_000).  V8 accepts a month in 1..12
\* and a day in 1..31 and carries a day beyond the end of the month into the
\* next month; any other text is NaN.
DateParse(s) ==
  IF MatchesDateShape(s) /\ s[1].m \in 1..12 /\ s[1].d \in 1..31
    THEN [ok |-> TRUE, day |-> DaysFromCivil(s[1].y, s[1].m, 1) + s[1].d - 1]
    ELSE [ok |-> FALSE, day |-> 0]


(***************************************************************************)
(* Numbers.  A JavaScript number (an IEEE 754 double) is modelled as       *)
(*   [k |-> "fin", n, d, e]   the value (n / d) * 10^(308 * e), n / d in   *)
(*                            lowest terms and of moderate size,           *)
(*   [k |-> "inf", n |-> 1 or -1]   Infinity and -Infinity,                *)
(*   [k |-> "nan"]                  NaN.                                   *)
(* The range of a double is kept: a result above Number.MAX_VALUE          *)
(* (1.7976931348623157e308, taken here as 1.7976e308) is Infinity, and     *)
(* Infinity * 0, Infinity - Infinity, Infinity / Infinity and 0 / 0 are    *)
(* NaN.  The rounding of a double to 53 bits is not modelled, except that  *)
(* a sum absorbs a term 308 orders of magnitude smaller.  Zero is unsigned.*)
(***************************************************************************)
Abs(i) == IF i < 0 THEN -i ELSE i
Sign(i) == IF i < 0 THEN -1 ELSE IF i = 0 THEN 0 ELSE 1

RECURSIVE GCD(_, _)
GCD(a, b) == IF b = 0 THEN a ELSE GCD(b, a % b)

NaN == [k |-> "nan", n |-> 0, d |-> 1, e |-> 0]
Infinity(sign) == [k |-> "inf", n |-> sign, d |-> 1, e |-> 0]
Zero == [k |-> "fin", n |-> 0, d |-> 1, e |-> 0]

\* The double of value (n / d) * 10^(308 * e), d # 0.
Num(n, d, e) ==
  LET g  == GCD(Abs(n), Abs(d))
      nn == (n \div g) * Sign(d)
      dd == Abs(d) \div g
  IN  IF n = 0 \/ e < -1 THEN Zero
      ELSE IF e > 1 \/ (e = 1 /\ Abs(nn) * 10000 > 17976 * dd)
        THEN Infinity(Sign(nn))
      ELSE [k |-> "fin", n |-> nn, d |-> dd, e |-> e]

Int2Num(i) == Num(i, 1, 0)
IsFinite(x) == x.k = "fin"
Neg(x) == IF x.k = "nan" THEN NaN ELSE [x EXCEPT !.n = -x.n]

\* x * y
Mul(x, y) ==
  IF x.k = "nan" \/ y.k = "nan" THEN NaN
  ELSE IF x.k = "inf" \/ y.k = "inf"
    THEN IF x.n = 0 \/ y.n = 0 THEN NaN
         ELSE Infinity(Sign(x.n) * Sign(y.n))
  ELSE Num(x.n * y.n, x.d * y.d, x.e + y.e)

\* x / y
Div(x, y) ==
  IF x.k = "nan" \/ y.k = "nan" THEN NaN
  ELSE IF x.k = "inf"
    THEN IF y.k = "inf" THEN NaN
         ELSE Infinity(x.n * (IF y.n < 0 THEN -1 ELSE 1))
  ELSE IF y.k = "inf" THEN Zero
  ELSE IF y.n = 0 THEN (IF x.n = 0 THEN NaN ELSE Infinity(Sign(x.n)))
  ELSE Num(x.n * y.d, x.d * y.n, x.e - y.e)

\* x + y
Add(x, y) ==
  IF x.k = "nan" \/ y.k = "nan" THEN NaN
  ELSE IF x.k = "inf"
    THEN IF y.k = "inf" /\ y.n # x.n THEN NaN ELSE x
  ELSE IF y.k = "inf" THEN y
  ELSE IF x.n = 0 THEN y
  ELSE IF y.n = 0 THEN x
  ELSE IF x.e > y.e THEN x
  ELSE IF y.e > x.e THEN y
  ELSE Num(x.n * y.d + y.n * x.d, x.d * y.d, x.e)

\* x - y
Sub(x, y) == Add(x, Neg(y))

\* n1 / d1 < n2 / d2 for d1, d2 > 0, by comparing the integer parts and
\* then the reciprocals of the fractional parts.
RECURSIVE LtFrac(_, _, _, _)
LtFrac(n1, d1, n2, d2) ==
  LET q1 == n1 \div d1
      q2 == n2 \div d2
      r1 == n1 % d1
      r2 == n2 % d2
  IN  IF q1 # q2 THEN q1 < q2
      ELSE IF r2 = 0 THEN FALSE
      ELSE IF r1 = 0 THEN TRUE
      ELSE LtFrac(d2, r2, d1, r1)

\* x < y (false when either is NaN)
Lt(x, y) ==
  IF x.k = "nan" \/ y.k = "nan" \/ x = y THEN FALSE
  ELSE IF x.k = "inf" THEN x.n < 0
  ELSE IF y.k = "inf" THEN y.n > 0
  ELSE IF x.e > y.e THEN x.n < 0
  ELSE IF y.e > x.e THEN y.n > 0
  ELSE LtFrac(x.n, x.d, y.n, y.d)

\* x <= y (false when either is NaN)
Leq(x, y) ==
  IF x.k = "nan" \/ y.k = "nan" THEN FALSE ELSE x = y \/ Lt(x, y)

\* Bounds of Math.pow(base, exponent) for base > 0 and 1 <= exponent <= 2:
\* with delta = exponent - 1, Bernoulli's inequality gives
\*   1 + delta * (base - 1) / base <= base^delta <= 1 + delta * (base - 1).
PowBounds(base, exponent) ==
  LET one   == Num(1, 1, 0)
      delta == Sub(exponent, one)
      grow  == Sub(base, one)
  IN  [lo |-> Mul(base, Add(one, Mul(delta, Div(grow, base)))),
       hi |-> Mul(base, Add(one, Mul(delta, grow)))]

\* Math.max(x, y)
Max(x, y) ==
  IF x.k = "nan" \/ y.k = "nan" THEN NaN ELSE IF Leq(x, y) THEN y ELSE x

\* JSON.stringify of a number, as res.json sends it: NaN and the infinities
\* are written as null.
Null == [k |-> "null", n |-> 0, d |-> 1, e |-> 0]
JsonNumber(x) == IF IsFinite(x) THEN x ELSE Null

(***************************************************************************)
(* Series helpers (prices.ts).  A PricePoint is [date, adj_close]; an      *)
(* upstream row is a record that may lack its date or its adjClose field.  *)
(***************************************************************************)
PricePoint(date, close) == [date |-> date, adj_close |-> close]

RECURSIVE findBefore(_, _, _)
findBefore(series, target, i) ==
  IF i < 1 THEN 0
  ELSE IF StrLeq(series[i].date, target) THEN i
  ELSE findBefore(series, target, i - 1)

\* Last index whose date <= target; 0 stands for the code's -1
\* (indices are 1-based here, 0-based in the code).
findIdxAtOrBefore(series, target) == findBefore(series, target, Len(series))

RECURSIVE findAfter(_, _, _)
findAfter(series, target, i) ==
  IF i > Len(series) THEN 0
  ELSE IF StrLeq(target, series[i].date) THEN i
  ELSE findAfter(series, target, i + 1)

\* First index whose date >= target; 0 stands for the code's -1.
findIdxAtOrAfter(series, target) == findAfter(series, target, 1)

\* .filter((r) => r && r.adjClose != null && r.date)
RowUsable(r) == "adjClose" \in DOMAIN r /\ "date" \in DOMAIN r

\* .map((r) => ({ date: fmt(new Date(r.date)), adj_close: Number(r.adjClose) }))
RowToPoint(r) == PricePoint(fmt(r.date), r.adjClose)

\* InsertSorted with the comparator's result negated: a descending sort.
RECURSIVE InsertSortedDescending(_, _)
InsertSortedDescending(sorted, p) ==
  IF sorted = <<>> THEN <<p>>
  ELSE IF StrLeq(p.date, sorted[Len(sorted)].date) THEN Append(sorted, p)
  ELSE Append(InsertSortedDescending(SubSeq(sorted, 1, Len(sorted) - 1), p),
              sorted[Len(sorted)])

\* Insert p into an ascending sequence after every element that is <= p:
\* Array.prototype.sort is stable, so equal dates keep their arrival order.
RECURSIVE InsertSorted(_, _)
InsertSorted(sorted, p) ==
  IF sorted = <<>> THEN <<p>>
  ELSE IF StrLeq(sorted[Len(sorted)].date, p.date) THEN Append(sorted, p)
  ELSE Append(InsertSorted(SubSeq(sorted, 1, Len(sorted) - 1), p),
              sorted[Len(sorted)])

RECURSIVE SortByDate(_)
SortByDate(pts) ==
  IF pts = <<>> THEN <<>>
  ELSE InsertSorted(SortByDate(SubSeq(pts, 1, Len(pts) - 1)), pts[Len(pts)])

\* FilterMap that stops at the first row lacking a field.
RECURSIVE FilterMapUntilBadRow(_)
FilterMapUntilBadRow(rows) ==
  IF rows = <<>> \/ ~RowUsable(rows[1]) THEN <<>>
  ELSE <<RowToPoint(rows[1])>> \o FilterMapUntilBadRow(Tail(rows))

RECURSIVE FilterMap(_)
FilterMap(rows) ==
  IF rows = <<>> THEN <<>>
  ELSE IF RowUsable(rows[1])
    THEN <<RowToPoint(rows[1])>> \o FilterMap(Tail(rows))
    ELSE FilterMap(Tail(rows))

\* Normalize to { date, adj_close } and sort ASC
Normalize(rows) == SortByDate(FilterMap(rows))

(***************************************************************************)
(* The cache (cache.ts): an LRUCache with max entries and a ttl.  It is    *)
(* modelled as the sequence of its entries, least recently used first;     *)
(* each entry keeps the clock value at which it was set.  The clock runs   *)
(* in hours.                                                               *)
(***************************************************************************)
CacheMax == 300
CacheTTL == 24

\* `prices:${ticker}:${startISO}:${endISO}`
CacheKey(ticker, startISO, endISO) ==
  <<TextAtom("prices")>> \o ticker \o startISO \o endISO

CacheIndex(c, key) ==
  IF \E i \in 1..Len(c) : c[i].key = key
    THEN CHOOSE i \in 1..Len(c) : c[i].key = key
    ELSE 0

RemoveAt(c, i) == SubSeq(c, 1, i - 1) \o SubSeq(c, i + 1, Len(c))

\* An entry is stale once its age exceeds the ttl.
IsStale(entry, t) == t - entry.start > CacheTTL

\* CacheGet with updateAgeOnGet: a read restarts the ttl of the entry.
CacheGetUpdatingAge(c, key, t) ==
  LET i == CacheIndex(c, key) IN
  IF i = 0 THEN [hit |-> FALSE, value |-> <<>>, cache |-> c]
  ELSE IF IsStale(c[i], t)
    THEN [hit |-> FALSE, value |-> <<>>, cache |-> RemoveAt(c, i)]
    ELSE [hit |-> TRUE, value |-> c[i].value,
          cache |-> Append(RemoveAt(c, i), [c[i] EXCEPT !.start = t])]

\* cache.get(key): a stale entry is deleted and reads as absent; a fresh one
\* becomes the most recently used and keeps its start time.
CacheGet(c, key, t) ==
  LET i == CacheIndex(c, key) IN
  IF i = 0 THEN [hit |-> FALSE, value |-> <<>>, cache |-> c]
  ELSE IF IsStale(c[i], t)
    THEN [hit |-> FALSE, value |-> <<>>, cache |-> RemoveAt(c, i)]
    ELSE [hit |-> TRUE, value |-> c[i].value,
          cache |-> Append(RemoveAt(c, i), c[i])]

\* CacheSet that, when the cache is full, evicts an expired entry if there is
\* one and the least recently used entry only otherwise.
CacheSetEvictingExpiredFirst(c, key, value, t) ==
  LET i == CacheIndex(c, key)
      entry == [key |-> key, value |-> value, start |-> t]
      stale == {j \in 1..Len(c) : IsStale(c[j], t)}
  IN  IF i # 0 THEN Append(RemoveAt(c, i), entry)
      ELSE IF Len(c) >= CacheMax
        THEN IF stale # {}
               THEN Append(RemoveAt(c, CHOOSE j \in stale : \A k \in stale : j <= k),
                           entry)
               ELSE Append(Tail(c), entry)
      ELSE Append(c, entry)

\* cache.set(key, value): replaces the entry of the key, or adds one,
\* evicting the least recently used entry when the cache is full.
CacheSet(c, key, value, t) ==
  LET i == CacheIndex(c, key)
      entry == [key |-> key, value |-> value, start |-> t]
  IN  IF i # 0 THEN Append(RemoveAt(c, i), entry)
      ELSE IF Len(c) >= CacheMax THEN Append(Tail(c), entry)
      ELSE Append(c, entry)

(***************************************************************************)
(* Inputs of the model.                                                    *)
(***************************************************************************)
MaxCalls == 2      \* calls started in one behaviour of Spec
MaxPending == 2    \* calls suspended at the upstream fetch at one time
MaxRows == 3       \* rows in one upstream answer (SpecOneCall)
MaxNow == 48       \* last clock value (hours)

TSLA == Str(TextAtom("TSLA"))
Tickers == {TSLA}

\* 2016-02-26 (Fri), 2016-02-29 (Mon) and 2016-03-01 (Tue) are the trading
\* days of the model.  Requested dates: a Saturday, a date that is no
\* calendar date although its month and day are in range, a later weekday
\* without data, the spec's out-of-range month, and a malformed text.
Sat0227 == Str(DateAtom(2016, 2, 27))
Feb30 == Str(DateAtom(2016, 2, 30))
Wed0302 == Str(DateAtom(2016, 3, 2))
Month13 == Str(DateAtom(2016, 13, 1))
Malformed == Str(TextAtom("next friday"))
DateStrings == {Sat0227, Feb30, Wed0302, Month13, Malformed}

\* Two more argument triples, whose texts contain a colon:
\* ("TSLA:2016-02-27", "2016-02-27", "2016-03-02") and
\* ("TSLA", "2016-02-27:2016-02-27", "2016-03-02").
ColonTicker == TSLA \o Sat0227
ColonStart == Sat0227 \o Sat0227
ColonArgs == {<<ColonTicker, Sat0227, Wed0302>>, <<TSLA, ColonStart, Wed0302>>}

\* the argument triples of SpecOneCall, and the smaller set of Spec
CallArgs == (Tickers \X DateStrings \X DateStrings) \cup ColonArgs
SharedArgs ==
  (Tickers \X {Sat0227, Wed0302, Malformed} \X {Sat0227, Wed0302, Malformed})
    \cup ColonArgs

Amounts == {0, 100}

\* the request bodies that carry the argument triples: no fee, lump sum
BodiesOf(args) ==
  { [ticker |-> a[1], amount |-> Int2Num(amount), start_date |-> a[2],
     end_date |-> a[3], cadence |-> "lump_sum"] : a \in args, amount \in Amounts }

\* Upstream rows: their date is a Date (epoch hours, any time of day).
RowAt(y, m, d, hour, close) ==
  [date |-> DaysFromCivil(y, m, d) * HoursPerDay + hour, adjClose |-> close]
Row0226 == RowAt(2016, 2, 26, 0, Int2Num(10))
Row0229 == RowAt(2016, 2, 29, 5, Int2Num(15))
Row0229Late == RowAt(2016, 2, 29, 20, Int2Num(11))
Row0301 == RowAt(2016, 3, 1, 23, Int2Num(12))
RowNoDate == [adjClose |-> Int2Num(10)]
RowNoClose == [date |-> DaysFromCivil(2016, 2, 29) * HoursPerDay]
RowSet == {Row0226, Row0229, Row0229Late, Row0301, RowNoDate, RowNoClose}

SeqsUpTo(S, n) == UNION { [1..k -> S] : k \in 0..n }
\* the upstream answers of SpecOneCall, and the smaller set of Spec
RowSeqs == SeqsUpTo(RowSet, MaxRows)
FeedSeqs ==
  {<<>>, <<Row0229>>, <<Row0301, Row0229>>, <<Row0229, Row0229Late>>}

UpstreamMessages == {"Too Many Requests", "fetch failed"}

\* The request bodies of SpecRoute.  ScenarioBody is the request of
\* tests/backtest.spec.ts; 1.7e308 is a positive amount near
\* Number.MAX_VALUE; a fee is sent as fees_bps, the key of the schema, or as
\* fee_bps, a key the schema does not name; one window is a single day and
\* one ends at a date whose month is 13.
Jan04 == Str(DateAtom(2016, 1, 4))
Dec30 == Str(DateAtom(2016, 12, 30))
Huge == Num(17, 10, 1)
ScenarioBody ==
  [ticker |-> TSLA, amount |-> Int2Num(100), start_date |-> Jan04,
   end_date |-> Dec30, cadence |-> "lump_sum"]
EmptyBody == [field \in {} |-> 0]
With(b, field, value) == (field :> value) @@ b
Without(b, field) == [f \in DOMAIN b \ {field} |-> b[f]]

FeeFields ==
  {EmptyBody, [fees_bps |-> Zero], [fees_bps |-> Int2Num(50)],
   [fees_bps |-> Int2Num(10000)], [fee_bps |-> Int2Num(50)]}
RouteWindows == {<<Jan04, Dec30>>, <<Sat0227, Wed0302>>}
ValidBodies ==
  { fee @@ [ScenarioBody EXCEPT !.amount = amount, !.start_date = w[1],
                                !.end_date = w[2]] :
      fee \in FeeFields, amount \in {Int2Num(100), Huge}, w \in RouteWindows }
    \cup { Without(ScenarioBody, "cadence"),
           With(ScenarioBody, "end_date", Jan04),
           With(ScenarioBody, "end_date", Month13) }
InvalidBodies ==
  { Without(ScenarioBody, f) :
      f \in {"ticker", "amount", "start_date", "end_date"} }
    \cup { EmptyBody,
           With(ScenarioBody, "ticker", EmptyStr),
           With(ScenarioBody, "amount", Zero),
           With(ScenarioBody, "amount", Int2Num(-100)),
           With(ScenarioBody, "start_date", Malformed),
           With(ScenarioBody, "end_date", Malformed),
           With(With(ScenarioBody, "start_date", Dec30), "end_date", Jan04),
           With(ScenarioBody, "cadence", "dca"),
           With(ScenarioBody, "fees_bps", Int2Num(10001)),
           With(ScenarioBody, "fees_bps", Int2Num(-1)) }
RouteBodies == ValidBodies \cup InvalidBodies

\* The upstream answers of SpecRoute: one has a first close of 0.5.
RowHalf0229 == RowAt(2016, 2, 29, 5, Num(1, 2, 0))
RouteFeeds == {<<>>, <<Row0229, Row0301>>, <<RowHalf0229, Row0301>>}

(***************************************************************************)
(* State.                                                                  *)
(***************************************************************************)
VARIABLES
  isStub,    \* env.isStub (config.ts:36), fixed when the process starts
  cache,     \* the entries of the LRU cache, least recently used first
  now,       \* the clock, in hours
  pending,   \* the calls suspended at `await yahooFinance.historical(...)`
  last,      \* the most recently completed call and its outcome
  nCalls     \* calls started in this behaviour

vars == <<isStub, cache, now, pending, last, nCalls>>

NoHttp == [status |-> 0, error |-> ""]

\* outcome of getAdjustedSeries: a returned series or a thrown error
Returned(series) ==
  [kind |-> "ok", series |-> series, status |-> 0, message |-> "", detail |-> ""]
Thrown(status, message, detail) ==
  [kind |-> "err", series |-> <<>>, status |-> status, message |-> message,
   detail |-> detail]

\* The stub branch of getAdjustedSeries.
StubSeries(startISO, endISO) ==
  <<PricePoint(startISO, Int2Num(10)), PricePoint(endISO, Int2Num(15))>>

\* SnapOutcome with `endIdx < startIdx` for `endIdx <= startIdx`.
SnapOutcomeAllowSingle(rows, startISO, endISO) ==
  LET series   == Normalize(rows)
      startStr == fmt(toDate(startISO).t)
      endStr   == fmt(toDate(endISO).t)
      startIdx == findIdxAtOrAfter(series, startStr)
      endIdx   == findIdxAtOrBefore(series, endStr)
  IN  IF Len(series) = 0
        THEN Thrown(422, "No data for ticker/date range", "")
      ELSE IF startIdx = 0 \/ endIdx = 0 \/ endIdx < startIdx
        THEN Thrown(422, "Insufficient data after trading-day snap", "")
      ELSE Returned(SubSeq(series, startIdx, endIdx))

\* SnapOutcome without the test for an empty normalized series.
SnapOutcomeWithoutEmptyTest(rows, startISO, endISO) ==
  LET series   == Normalize(rows)
      startStr == fmt(toDate(startISO).t)
      endStr   == fmt(toDate(endISO).t)
      startIdx == findIdxAtOrAfter(series, startStr)
      endIdx   == findIdxAtOrBefore(series, endStr)
  IN  IF startIdx = 0 \/ endIdx = 0 \/ endIdx <= startIdx
        THEN Thrown(422, "Insufficient data after trading-day snap", "")
      ELSE Returned(SubSeq(series, startIdx, endIdx))

\* getAdjustedSeries from the normalisation to the slice (prices.ts:94-121):
\* the outcome for the rows the upstream returned.
SnapOutcome(rows, startISO, endISO) ==
  LET series   == Normalize(rows)
      startStr == fmt(toDate(startISO).t)
      endStr   == fmt(toDate(endISO).t)
      startIdx == findIdxAtOrAfter(series, startStr)
      endIdx   == findIdxAtOrBefore(series, endStr)
  IN  IF Len(series) = 0
        THEN Thrown(422, "No data for ticker/date range", "")
      ELSE IF startIdx = 0 \/ endIdx = 0 \/ endIdx <= startIdx
        THEN Thrown(422, "Insufficient data after trading-day snap", "")
      ELSE Returned(SubSeq(series, startIdx, endIdx))

\* CacheLookup with a key that leaves out the end date.
CacheLookupWithoutEnd(c, ticker, startISO, endISO, t) ==
  CacheGet(c, CacheKey(ticker, startISO, <<>>), t)

\* cache.get(cacheKey) (prices.ts:68-69)
CacheLookup(c, ticker, startISO, endISO, t) ==
  CacheGet(c, CacheKey(ticker, startISO, endISO), t)

\* StoreWindow with a key built from the effective dates of the window.
StoreWindowUnderEffectiveDates(c, call, window, t) ==
  CacheSet(c, CacheKey(call.ticker, window[1].date, window[Len(window)].date),
           window, t)

\* StoreWindow that keeps the entry the key already has.
StoreWindowFirstWriteWins(c, call, window, t) ==
  IF CacheIndex(c, CacheKey(call.ticker, call.startISO, call.endISO)) # 0
    THEN c
    ELSE CacheSet(c, CacheKey(call.ticker, call.startISO, call.endISO),
                  window, t)

\* cache.set(cacheKey, window) (prices.ts:68, 122): the key is built from
\* the arguments of the call.
StoreWindow(c, call, window, t) ==
  CacheSet(c, CacheKey(call.ticker, call.startISO, call.endISO), window, t)

\* ProviderError that drops the upstream message.
ProviderErrorWithoutDetail(msg) == Thrown(502, "Price provider error", "")

\* The catch block around the upstream call (prices.ts:86-92).
ProviderError(msg) == Thrown(502, "Price provider error", msg)

\* errorMiddleware (errors.ts): the response for a thrown error.  The errors
\* getAdjustedSeries throws are plain Error objects with a status property,
\* neither AppError nor ZodError.
errorMiddleware(errClass, status, message) ==
  IF errClass = "AppError" THEN [status |-> status, error |-> message]
  ELSE IF errClass = "ZodError" THEN [status |-> 400, error |-> "ValidationError"]
  ELSE [status |-> 500, error |-> "InternalServerError"]

\* A request body (req.body after express.json()) is a record of the fields
\* it carries; a field the body lacks is absent from the record.
Has(b, field) == field \in DOMAIN b

\* BodyValid without the refinement start_date <= end_date.
BodyValidWithoutOrder(b) ==
  /\ Has(b, "ticker") /\ b.ticker # EmptyStr
  /\ Has(b, "amount") /\ IsFinite(b.amount) /\ b.amount.n > 0
  /\ Has(b, "start_date") /\ MatchesDateShape(b.start_date)
  /\ Has(b, "end_date") /\ MatchesDateShape(b.end_date)
  /\ Has(b, "cadence") => b.cadence = "lump_sum"
  /\ Has(b, "fees_bps") =>
       Leq(Zero, b.fees_bps) /\ Leq(b.fees_bps, Int2Num(10000))

\* The Body schema of the route (backtest.ts:23-33).
BodyValid(b) ==
  /\ Has(b, "ticker") /\ b.ticker # EmptyStr
  /\ Has(b, "amount") /\ IsFinite(b.amount) /\ b.amount.n > 0
  /\ Has(b, "start_date") /\ MatchesDateShape(b.start_date)
  /\ Has(b, "end_date") /\ MatchesDateShape(b.end_date)
  /\ Has(b, "cadence") => b.cadence = "lump_sum"
  /\ Has(b, "fees_bps") =>
       Leq(Zero, b.fees_bps) /\ Leq(b.fees_bps, Int2Num(10000))
  /\ StrLeq(b.start_date, b.end_date)

\* Body.parse of a valid body: the defaults are filled in and the keys the
\* schema does not name are stripped.
ParseBody(b) ==
  [ticker |-> b.ticker, amount |-> b.amount,
   start_date |-> b.start_date, end_date |-> b.end_date,
   cadence |-> IF Has(b, "cadence") THEN b.cadence ELSE "lump_sum",
   fees_bps |-> IF Has(b, "fees_bps") THEN b.fees_bps ELSE Zero]

\* totalReturnPct (math.ts)
totalReturnPct(start, end) == Div(Sub(end, start), start)

\* cagr (math.ts): Math.pow(end / start, 1 / safeYears) - 1.  Math.pow is
\* not evaluated: the result is kept as the two arguments it is applied to.
cagr(start, end, days) ==
  LET years     == Div(days, Num(36525, 100, 0))
      safeYears == Max(years, Num(1, 1000000000, 0))
  IN  [base |-> Div(end, start), exponent |-> Div(Int2Num(1), safeYears)]

\* ElapsedDays counting both the first and the last day.
ElapsedDaysInclusive(effectiveStart, effectiveEnd) ==
  LET from == DateParse(effectiveStart)
      to   == DateParse(effectiveEnd)
  IN  IF from.ok /\ to.ok
        THEN Max(Int2Num(1), Int2Num(to.day - from.day + 1))
        ELSE NaN

\* Math.max(1, Math.round((Date.parse(end) - Date.parse(start)) / 86_400_000))
ElapsedDays(effectiveStart, effectiveEnd) ==
  LET from == DateParse(effectiveStart)
      to   == DateParse(effectiveEnd)
  IN  IF from.ok /\ to.ok
        THEN Max(Int2Num(1), Int2Num(to.day - from.day))
        ELSE NaN

\* Metrics with the fee taken in percent instead of basis points.
MetricsFeeInPercent(p, series) ==
  LET start == series[1].adj_close
      end   == series[Len(series)].adj_close
      feeMultiplier == Sub(Int2Num(1), Div(p.fees_bps, Int2Num(100)))
      shares == Mul(Div(p.amount, start), feeMultiplier)
      final_value == Mul(shares, end)
      days == ElapsedDays(series[1].date, series[Len(series)].date)
  IN  [shares |-> shares, final_value |-> final_value, days |-> days,
       total_return_pct |-> totalReturnPct(p.amount, final_value),
       cagr |-> cagr(p.amount, final_value, days)]

\* The metrics of the handler (backtest.ts:47-75, 82-83).
Metrics(p, series) ==
  LET start == series[1].adj_close
      end   == series[Len(series)].adj_close
      feeMultiplier == Sub(Int2Num(1), Div(p.fees_bps, Int2Num(10000)))
      shares == Mul(Div(p.amount, start), feeMultiplier)
      final_value == Mul(shares, end)
      days == ElapsedDays(series[1].date, series[Len(series)].date)
  IN  [shares |-> shares, final_value |-> final_value, days |-> days,
       total_return_pct |-> totalReturnPct(p.amount, final_value),
       cagr |-> cagr(p.amount, final_value, days)]

NoMetrics ==
  [shares |-> Zero, final_value |-> Zero, days |-> Zero,
   total_return_pct |-> Zero, cagr |-> [base |-> Zero, exponent |-> Zero]]

\* ResponseBody reporting the requested dates as the effective ones.
ResponseBodyRequestedDates(p, series, m) ==
  [series |-> series,
   shares |-> JsonNumber(m.shares),
   final_value |-> JsonNumber(m.final_value),
   total_return_pct |-> JsonNumber(m.total_return_pct),
   cagr |-> m.cagr,
   fees_bps |-> p.fees_bps,
   effective_start_date |-> p.start_date,
   effective_end_date |-> p.end_date,
   snap_policy |-> "start=next, end=previous"]

\* res.json({...}) (backtest.ts:78-92): the body of a 200 response.
ResponseBody(p, series, m) ==
  [series |-> series,
   shares |-> JsonNumber(m.shares),
   final_value |-> JsonNumber(m.final_value),
   total_return_pct |-> JsonNumber(m.total_return_pct),
   cagr |-> m.cagr,
   fees_bps |-> p.fees_bps,
   effective_start_date |-> series[1].date,
   effective_end_date |-> series[Len(series)].date,
   snap_policy |-> "start=next, end=previous"]

NoBody ==
  [series |-> <<>>, shares |-> Null, final_value |-> Null,
   total_return_pct |-> Null, cagr |-> [base |-> Zero, exponent |-> Zero],
   fees_bps |-> Zero, effective_start_date |-> EmptyStr,
   effective_end_date |-> EmptyStr, snap_policy |-> ""]

ErrorResponse(http) == [http |-> http, calc |-> NoMetrics, body |-> NoBody]

\* RouteResponse that answers a provider error with the stub series.
RouteResponseRecovering(p, out) ==
  IF out.kind = "err"
    THEN [http |-> [status |-> 200, error |-> ""],
          calc |-> Metrics(p, StubSeries(p.start_date, p.end_date)),
          body |-> ResponseBody(p, StubSeries(p.start_date, p.end_date),
                                Metrics(p, StubSeries(p.start_date, p.end_date)))]
  ELSE IF Len(out.series) < 2
    THEN ErrorResponse(errorMiddleware("AppError", 422, "Insufficient data"))
  ELSE IF out.series[1].date = EmptyStr
          \/ out.series[Len(out.series)].date = EmptyStr
    THEN ErrorResponse(errorMiddleware("AppError", 422, "Insufficient date data"))
  ELSE [http |-> [status |-> 200, error |-> ""],
        calc |-> Metrics(p, out.series),
        body |-> ResponseBody(p, out.series, Metrics(p, out.series))]

\* The route handler after `await getAdjustedSeries(...)` (backtest.ts:42-92),
\* and asyncHandler's catch for a rejected call.
RouteResponse(p, out) ==
  IF out.kind = "err"
    THEN ErrorResponse(errorMiddleware("Error", out.status, out.message))
  ELSE IF Len(out.series) < 2
    THEN ErrorResponse(errorMiddleware("AppError", 422, "Insufficient data"))
  ELSE IF out.series[1].date = EmptyStr
          \/ out.series[Len(out.series)].date = EmptyStr
    THEN ErrorResponse(errorMiddleware("AppError", 422, "Insufficient date data"))
  ELSE [http |-> [status |-> 200, error |-> ""],
        calc |-> Metrics(p, out.series),
        body |-> ResponseBody(p, out.series, Metrics(p, out.series))]

\* What the caller of getAdjustedSeries does with its outcome.
HttpOf(call, out) ==
  IF call.via = "route" THEN RouteResponse(ParseBody(call.raw), out)
  ELSE ErrorResponse(NoHttp)

\* A call of getAdjustedSeries: who makes it (the route, with the request
\* body, or a direct caller), its arguments, the number of upstream
\* fetches it has issued, and whether its cache lookup found an expired
\* entry, which the lookup deletes (purged).
NoRaw == [none |-> TRUE]
NewCall(via, raw, ticker, startISO, endISO) ==
  [via |-> via, raw |-> raw, ticker |-> ticker,
   startISO |-> startISO, endISO |-> endISO, fetches |-> 0, purged |-> FALSE]

\* The record of a completed call: the call, its outcome, what the
\* upstream did for it ("none": no fetch was issued; "resolved" with rows;
\* "rejected" with a message), whether it was served from the cache (hit),
\* whether it wrote the cache (stored), and the HTTP response of the route.
Completed(call, out, upstream, rows, msg, hit, stored) ==
  [via |-> call.via, raw |-> call.raw, ticker |-> call.ticker,
   startISO |-> call.startISO, endISO |-> call.endISO,
   fetches |-> call.fetches, purged |-> call.purged,
   kind |-> out.kind, series |-> out.series, status |-> out.status,
   message |-> out.message, detail |-> out.detail,
   upstream |-> upstream, rows |-> rows, upstreamMsg |-> msg,
   hit |-> hit, stored |-> stored,
   http |-> HttpOf(call, out).http,
   calc |-> HttpOf(call, out).calc,
   body |-> HttpOf(call, out).body]

\* No call has completed since the last one started.
NoCall ==
  [via |-> "none", raw |-> NoRaw, ticker |-> TSLA,
   startISO |-> Malformed, endISO |-> Malformed, fetches |-> 0,
   purged |-> FALSE, kind |-> "none", series |-> <<>>, status |-> 0,
   message |-> "", detail |-> "",
   upstream |-> "none", rows |-> <<>>, upstreamMsg |-> "",
   hit |-> FALSE, stored |-> FALSE,
   http |-> NoHttp, calc |-> NoMetrics, body |-> NoBody]

Init ==
  /\ isStub \in BOOLEAN
  /\ cache = <<>>
  /\ now = 0
  /\ pending = <<>>
  /\ nCalls = 0
  /\ last = NoCall

\* getAdjustedSeries up to its first suspension (prices.ts:61-85): the stub
\* branch, the cache lookup and the date parsing end the call at once;
\* otherwise the upstream fetch is issued and the call waits for it.
GetAdjustedSeriesStart(call) ==
  LET got == CacheLookup(cache, call.ticker, call.startISO, call.endISO, now)
      start == toDate(call.startISO)
      end == toDate(call.endISO)
      purged == Len(got.cache) < Len(cache)
      done(out, hit) ==
        last' = Completed([call EXCEPT !.purged = purged], out, "none", <<>>,
                          "", hit, FALSE)
  IN  IF isStub
        THEN /\ last' = Completed(call,
                                   Returned(StubSeries(call.startISO, call.endISO)),
                                   "none", <<>>, "", FALSE, FALSE)
             /\ UNCHANGED <<cache, pending>>
      ELSE IF got.hit
        THEN /\ done(Returned(got.value), TRUE)
             /\ cache' = got.cache
             /\ UNCHANGED pending
      ELSE IF ~start.ok
        THEN /\ done(Thrown(start.status, start.message, ""), FALSE)
             /\ cache' = got.cache
             /\ UNCHANGED pending
      ELSE IF ~end.ok
        THEN /\ done(Thrown(end.status, end.message, ""), FALSE)
             /\ cache' = got.cache
             /\ UNCHANGED pending
      ELSE /\ pending' = Append(pending,
                [via |-> call.via, raw |-> call.raw, ticker |-> call.ticker,
                 startISO |-> call.startISO, endISO |-> call.endISO,
                 fetches |-> call.fetches + 1, purged |-> purged,
                 period1 |-> start.t - 10 * HoursPerDay,
                 period2 |-> end.t + 2 * HoursPerDay])
           /\ cache' = got.cache
           /\ last' = NoCall

\* A direct call of the exported getAdjustedSeries.
CallBody(args) ==
  /\ Len(pending) < MaxPending
  /\ \E a \in args :
       GetAdjustedSeriesStart(NewCall("direct", NoRaw, a[1], a[2], a[3]))
  /\ nCalls' = nCalls + 1
  /\ UNCHANGED <<isStub, now>>

\* The arguments a rejected body would have passed, for the record.
FieldOr(b, field, default) == IF Has(b, field) THEN b[field] ELSE default

\* POST /api/v1/backtest: validateBody, then the handler up to its await.
\* An invalid body makes schema.parse throw a ZodError.
PostBody(bodies) ==
  /\ Len(pending) < MaxPending
  /\ \E b \in bodies :
       IF BodyValid(b)
         THEN GetAdjustedSeriesStart(
                NewCall("route", b, ParseBody(b).ticker,
                        ParseBody(b).start_date, ParseBody(b).end_date))
         ELSE /\ last' =
                   [Completed(NewCall("invalid", b,
                                      FieldOr(b, "ticker", EmptyStr),
                                      FieldOr(b, "start_date", EmptyStr),
                                      FieldOr(b, "end_date", EmptyStr)),
                              Thrown(400, "ValidationError", ""),
                              "none", <<>>, "", FALSE, FALSE)
                    EXCEPT !.via = "route",
                           !.http = errorMiddleware("ZodError", 0, "")]
              /\ UNCHANGED <<cache, pending>>
  /\ nCalls' = nCalls + 1
  /\ UNCHANGED <<isStub, now>>

\* CacheAfter that also stores the outcome of a failed call, as no series.
CacheAfterStoringFailures(c, call, out, t) ==
  StoreWindow(c, call, out.series, t)

\* The cache after the call ends with outcome out (prices.ts:103-122): only
\* a call that reaches the end of getAdjustedSeries stores its window.
CacheAfter(c, call, out, t) ==
  IF out.kind = "ok" THEN StoreWindow(c, call, out.series, t) ELSE c

\* The upstream call of pending[i] resolves with rows: the rest of
\* getAdjustedSeries runs (prices.ts:94-123), then the caller.
ResolveWith(answers) ==
  \E i \in 1..Len(pending), rows \in answers :
    LET c == pending[i]
        out == SnapOutcome(rows, c.startISO, c.endISO)
    IN  /\ cache' = CacheAfter(cache, c, out, now)
        /\ last' = Completed(c, out, "resolved", rows, "", FALSE,
                             out.kind = "ok")
        /\ pending' = RemoveAt(pending, i)
        /\ UNCHANGED <<isStub, now, nCalls>>

\* AfterReject where the catch block issues the fetch again.
AfterRejectRetrying(calls, i) == [calls EXCEPT ![i].fetches = @ + 1]

\* The calls left suspended after the fetch of calls[i] rejected: the catch
\* block throws (prices.ts:86-92), so the call ends.
AfterReject(calls, i) == RemoveAt(calls, i)

\* The upstream call of pending[i] rejects with an error message.
FetchReject ==
  \E i \in 1..Len(pending), msg \in UpstreamMessages :
    LET c == pending[i] IN
    /\ last' = Completed(c, ProviderError(msg), "rejected", <<>>, msg,
                         FALSE, FALSE)
    /\ pending' = AfterReject(pending, i)
    /\ UNCHANGED <<isStub, cache, now, nCalls>>

\* Time passes, one ttl at a time.
Tick ==
  /\ now + CacheTTL <= MaxNow
  /\ now' = now + CacheTTL
  /\ UNCHANGED <<isStub, cache, pending, last, nCalls>>

\* Spec: several calls, one after another or overlapping, share the cache
\* while time passes.  A call comes from any caller (Call) or from the route
\* (Post); a request to the route arrives while no call is suspended, and
\* calls may overlap the one it makes.
Call == nCalls < MaxCalls /\ CallBody(SharedArgs)
Post == nCalls < MaxCalls /\ pending = <<>> /\ PostBody(BodiesOf(SharedArgs))
FetchResolve == ResolveWith(FeedSeqs)

Next == Call \/ Post \/ FetchResolve \/ FetchReject \/ Tick

Spec == Init /\ [][Next]_vars

\* SpecOneCall: the first call of a process, for every upstream answer.
FirstCall == nCalls = 0 /\ CallBody(CallArgs)
FirstPost == nCalls = 0 /\ PostBody(BodiesOf(CallArgs))
FetchResolveAny == ResolveWith(RowSeqs)

NextOneCall == FirstCall \/ FirstPost \/ FetchResolveAny \/ FetchReject

SpecOneCall == Init /\ [][NextOneCall]_vars

\* SpecFull: the calls of a process whose cache is full.  It holds, least
\* recently used first, the window of (TSLA, 2016-02-27, 2016-03-02), stored
\* half a ttl after the start, and the windows of CacheMax - 1 other
\* tickers, stored at the start and read since.
FullWindow ==
  <<PricePoint(Str(DateAtom(2016, 2, 29)), Int2Num(15)),
    PricePoint(Str(DateAtom(2016, 3, 1)), Int2Num(12))>>
OtherTicker(i) == Str(TextAtom("T" \o ToString(i)))
FullCache(t) ==
  [i \in 1..CacheMax |->
     IF i = 1
       THEN [key |-> CacheKey(TSLA, Sat0227, Wed0302), value |-> FullWindow,
             start |-> t]
       ELSE [key |-> CacheKey(OtherTicker(i), Sat0227, Wed0302),
             value |-> FullWindow, start |-> 0]]

InitFull ==
  /\ isStub = FALSE
  /\ now = CacheTTL \div 2
  /\ cache = FullCache(CacheTTL \div 2)
  /\ pending = <<>>
  /\ nCalls = 0
  /\ last = NoCall

FullArgs == {<<TSLA, Sat0227, Wed0302>>} \cup ColonArgs
FullCall == nCalls < MaxCalls /\ CallBody(FullArgs)

NextFull == FullCall \/ FetchResolve \/ FetchReject \/ Tick

SpecFull == InitFull /\ [][NextFull]_vars

\* SpecRoute: requests to POST /api/v1/backtest, with every kind of body,
\* each sent after the response to the one before.
RoutePost == nCalls < MaxCalls /\ pending = <<>> /\ PostBody(RouteBodies)
RouteResolve == ResolveWith(RouteFeeds)

NextRoute == RoutePost \/ RouteResolve \/ FetchReject

SpecRoute == Init /\ [][NextRoute]_vars

\* SpecRouteLive: SpecRoute where the upstream fetch of a suspended request
\* eventually resolves or rejects.
SpecRouteLive == SpecRoute /\ WF_vars(RouteResolve \/ FetchReject)

(***************************************************************************)
(* Properties.                                                             *)
(***************************************************************************)
Completes == last.kind # "none"
Succeeds == last.kind = "ok"
FirstDate == last.series[1].date
LastDate == last.series[Len(last.series)].date
LastKey == CacheKey(last.ticker, last.startISO, last.endISO)

\* the indices of the points of a series dated at or after / at or before a text
AtOrAfter(series, target) ==
  {i \in 1..Len(series) : StrLeq(target, series[i].date)}
AtOrBefore(series, target) ==
  {i \in 1..Len(series) : StrLeq(series[i].date, target)}
MinOf(S) == CHOOSE x \in S : \A y \in S : x <= y
MaxOf(S) == CHOOSE x \in S : \A y \in S : y <= x

\* the call that a step starts: it is suspended at the fetch, or has ended
StartedCall ==
  IF Len(pending') > Len(pending) THEN pending'[Len(pending')] ELSE last'
StartsCall(a) ==
  /\ nCalls' = nCalls + 1
  /\ GetAdjustedSeriesStart(
       NewCall(a.via, a.raw, a.ticker, a.startISO, a.endISO))

SameEntries(c, d) ==
  {c[i] : i \in 1..Len(c)} = {d[i] : i \in 1..Len(d)}

\* C1: a series returned after a fetch starts at the smallest normalized
\* upstream date that is >= the requested start and ends at the largest
\* normalized upstream date that is <= the requested end.
C1_SnapsToRequestedDates ==
  (Succeeds /\ last.upstream = "resolved") =>
    LET norm  == Normalize(last.rows)
        after == AtOrAfter(norm, last.startISO)
        before == AtOrBefore(norm, last.endISO)
    IN  /\ after # {} /\ before # {}
        /\ FirstDate = norm[MinOf(after)].date
        /\ LastDate = norm[MaxOf(before)].date

\* C2: over a non-empty normalized series the call fails with
\* InsufficientDataAfterSnap exactly when no point is dated at or after the
\* requested start, or none at or before the requested end, or the index of
\* the snapped end is not strictly greater than that of the snapped start.
C2_InsufficientExactlyWhen ==
  (last.upstream = "resolved" /\ Normalize(last.rows) # <<>>) =>
    LET norm  == Normalize(last.rows)
        after == AtOrAfter(norm, last.startISO)
        before == AtOrBefore(norm, last.endISO)
        failsSnap ==
          /\ last.kind = "err"
          /\ last.status = 422
          /\ last.message = "Insufficient data after trading-day snap"
    IN  failsSnap <=>
          \/ after = {}
          \/ before = {}
          \/ MaxOf(before) <= MinOf(after)

\* C3: every series a call returns (stub or real, cached or fresh) has at
\* least 2 points, every cached series too, and a 200 response carries a
\* series of at least 2 points.
C3_AtLeastTwoPoints ==
  /\ Succeeds => Len(last.series) >= 2
  /\ last.http.status = 200 => Succeeds /\ Len(last.series) >= 2
  /\ \A i \in 1..Len(cache) : Len(cache[i].value) >= 2

C3_Witness ==
  /\ last.via = "route" /\ last.http.status = 200
  /\ last.hit /\ Len(last.series) = 2

\* C4: the series of every successful response to an accepted request has
\* strictly ascending dates, none appearing twice, so that its last date is
\* strictly after its first.
C4_StrictlyAscendingDates ==
  last.http.status = 200 =>
    /\ \A i \in 1..(Len(last.series) - 1) :
         StrLt(last.series[i].date, last.series[i + 1].date)
    /\ StrLt(FirstDate, LastDate)

OutOfRange(s) ==
  MatchesDateShape(s) /\ (s[1].m \notin 1..12 \/ s[1].d \notin 1..31)

C6_OutOfRangeDateIsInvalid ==
  ~isStub =>
    /\ \A i \in 1..Len(pending) :
         ~OutOfRange(pending[i].startISO) /\ ~OutOfRange(pending[i].endISO)
    /\ (Completes /\ (OutOfRange(last.startISO) \/ OutOfRange(last.endISO))) =>
         (last.kind = "err" /\ last.status = 400 /\ last.upstream = "none")

\* C7: with the real provider, a start or end text that is not of the shape
\* YYYY-MM-DD ends the call with status 400, without a fetch and without a
\* cache write, whatever the cache holds.
C7_MalformedDateIsInvalid ==
  ~isStub =>
  /\ \A i \in 1..Len(pending) :
       MatchesDateShape(pending[i].startISO) /\ MatchesDateShape(pending[i].endISO)
  /\ (Completes /\ ~(MatchesDateShape(last.startISO) /\ MatchesDateShape(last.endISO))) =>
       /\ last.kind = "err" /\ last.status = 400
       /\ last.upstream = "none" /\ ~last.stored

\* C8: a call that finds an unexpired entry under its key returns the stored
\* series, issues no fetch and writes nothing to the cache.
C8_CacheHitReturnsStored ==
  [][ LET a == StartedCall
          i == CacheIndex(cache, CacheKey(a.ticker, a.startISO, a.endISO))
      IN  (StartsCall(a) /\ i # 0 /\ ~IsStale(cache[i], now)) =>
            /\ last'.kind = "ok"
            /\ last'.series = cache[i].value
            /\ last'.upstream = "none" /\ ~last'.stored
            /\ pending' = pending
            /\ SameEntries(cache', cache) ]_vars

C8_Witness ==
  /\ Succeeds /\ last.hit /\ last.upstream = "none"
  /\ CacheIndex(cache, LastKey) # 0

\* C9: when a call returns a freshly fetched series, the cache holds that
\* series under the key of the requested (ticker, start, end); the same
\* request made next, before time passes, returns the same series without
\* a fetch.
C9_StoredSliceIsReturned ==
  /\ [](Succeeds /\ last.upstream = "resolved" =>
          /\ last.stored
          /\ CacheIndex(cache, LastKey) # 0
          /\ cache[CacheIndex(cache, LastKey)].value = last.series)
  /\ [][ (/\ Succeeds /\ last.upstream = "resolved"
          /\ CacheIndex(cache, LastKey) # 0
          /\ cache[CacheIndex(cache, LastKey)].start = now
          /\ StartsCall([StartedCall EXCEPT !.ticker = last.ticker,
                                            !.startISO = last.startISO,
                                            !.endISO = last.endISO])) =>
           /\ last'.kind = "ok"
           /\ last'.series = last.series
           /\ last'.upstream = "none"
           /\ pending' = pending ]_vars

C9_Witness ==
  /\ Succeeds /\ last.hit
  /\ last.startISO = Sat0227 /\ last.endISO = Wed0302
  /\ CacheIndex(cache, LastKey) # 0
  /\ cache[CacheIndex(cache, LastKey)].start = now

\* C10: when the upstream call fails, the call fails with status 502 and
\* message 'Price provider error', carries the upstream message as detail,
\* and returns no series.
C10_ProviderUnavailable ==
  last.upstream = "rejected" =>
    /\ last.kind = "err" /\ last.series = <<>>
    /\ last.status = 502
    /\ last.message = "Price provider error"
    /\ last.detail = last.upstreamMsg

C10_Witness ==
  /\ last.upstream = "rejected" /\ last.via = "direct"
  /\ last.upstreamMsg = "Too Many Requests"

\* C11: a call issues at most one upstream fetch: every suspended call has
\* issued exactly one, no completed call more than one, and the step in
\* which a fetch fails ends its call with an error and leaves one suspended
\* call fewer, none of them fetching again.
C11_NoRetry ==
  /\ [](/\ \A i \in 1..Len(pending) : pending[i].fetches = 1
        /\ last.fetches <= 1
        /\ last.upstream = "rejected" => last.kind = "err" /\ last.fetches = 1)
  /\ [][ (nCalls' = nCalls /\ last'.upstream = "rejected" /\ pending' # pending)
           => Len(pending') = Len(pending) - 1 ]_vars

C11_Witness ==
  /\ last.via = "route" /\ last.upstream = "rejected"
  /\ last.kind = "err" /\ last.fetches = 1

\* C12: when the upstream answers and no row has both a date and an adjusted
\* close (no rows at all included), the call fails with status 422 and the
\* NoData message, returns no series and stores nothing.
C12_NoUsableRowsIsNoData ==
  (/\ last.upstream = "resolved"
   /\ \A i \in 1..Len(last.rows) :
        ~("date" \in DOMAIN last.rows[i] /\ "adjClose" \in DOMAIN last.rows[i]))
    => /\ last.kind = "err" /\ last.series = <<>>
       /\ last.status = 422
       /\ last.message = "No data for ticker/date range"
       /\ ~last.stored

C12_Witness ==
  /\ last.upstream = "resolved" /\ last.rows = <<RowNoDate, RowNoClose>>
  /\ last.status = 422 /\ last.message = "No data for ticker/date range"

\* C13: the route answers a request that failed for insufficient data after
\* the trading-day snap with 422, one that failed because the upstream
\* errored with 502, and an invalid body with 400.
C13_ErrorStatuses ==
  last.via = "route" =>
    /\ (last.kind = "err"
        /\ last.message = "Insufficient data after trading-day snap")
         => last.http.status = 422
    /\ last.upstream = "rejected" => last.http.status = 502
    /\ ~BodyValid(last.raw) => last.http.status = 400

\* C14: a body that violates the schema (a required field missing, an empty
\* ticker, an amount <= 0, a date not of the shape YYYY-MM-DD, start_date >
\* end_date, fees_bps outside 0..10000, a cadence other than lump_sum) is
\* answered 400; no upstream fetch is issued for it and the step that
\* rejects it leaves the cache and the suspended calls as they were.
ViolatesSchema(b) ==
  \/ \E f \in {"ticker", "amount", "start_date", "end_date"} : f \notin DOMAIN b
  \/ b.ticker = EmptyStr
  \/ ~Lt(Zero, b.amount)
  \/ ~MatchesDateShape(b.start_date) \/ ~MatchesDateShape(b.end_date)
  \/ StrLt(b.end_date, b.start_date)
  \/ "fees_bps" \in DOMAIN b
       /\ (Lt(b.fees_bps, Zero) \/ Lt(Int2Num(10000), b.fees_bps))
  \/ "cadence" \in DOMAIN b /\ b.cadence # "lump_sum"

C14_ValidationPrecedes ==
  /\ [](/\ \A i \in 1..Len(pending) :
             pending[i].via = "route" => ~ViolatesSchema(pending[i].raw)
        /\ (last.via = "route" /\ ViolatesSchema(last.raw)) =>
             /\ last.http.status = 400
             /\ last.upstream = "none" /\ last.fetches = 0
             /\ ~last.hit /\ ~last.stored)
  /\ [][ (/\ nCalls' = nCalls + 1
          /\ last'.via = "route" /\ ViolatesSchema(last'.raw))
           => cache' = cache /\ pending' = pending ]_vars

C14_Witness ==
  /\ last.via = "route" /\ last.http.status = 400
  /\ last.raw = With(ScenarioBody, "fees_bps", Int2Num(10001))
  /\ Len(cache) > 0

\* C15: in every 200 response, shares = (amount / first adj_close) *
\* (1 - fees_bps / 10000), final_value = shares * last adj_close and
\* total_return_pct = (final_value - amount) / amount, with the amount and the
\* fee of the parsed request.
C15_MetricsFormulas ==
  last.http.status = 200 =>
    LET p      == ParseBody(last.raw)
        first  == last.series[1].adj_close
        final  == last.series[Len(last.series)].adj_close
        factor == Sub(Int2Num(1), Div(p.fees_bps, Int2Num(10000)))
    IN  /\ last.body.shares = Mul(Div(p.amount, first), factor)
        /\ last.body.final_value = Mul(last.body.shares, final)
        /\ last.body.total_return_pct =
             Div(Sub(last.body.final_value, p.amount), p.amount)

\* C16 and C17: the stub scenario.
InScenario(fee) ==
  /\ isStub /\ last.via = "route"
  /\ last.raw = fee @@ ScenarioBody

ScenarioSeries == <<PricePoint(Jan04, Int2Num(10)), PricePoint(Dec30, Int2Num(15))>>

\* the cagr of the response is certainly / possibly within 0.002 of value
Tolerance == Num(2, 1000, 0)
CagrIsAbout(c, value) ==
  LET pow == PowBounds(c.base, c.exponent) IN
  /\ Leq(Sub(value, Tolerance), Sub(pow.lo, Int2Num(1)))
  /\ Leq(Sub(pow.hi, Int2Num(1)), Add(value, Tolerance))
CagrMayBeAbout(c, value) ==
  LET pow == PowBounds(c.base, c.exponent) IN
  /\ Leq(Sub(pow.lo, Int2Num(1)), Add(value, Tolerance))
  /\ Leq(Sub(value, Tolerance), Sub(pow.hi, Int2Num(1)))

ScenarioMetrics ==
  /\ last.http.status = 200
  /\ last.series = ScenarioSeries /\ last.body.series = ScenarioSeries
  /\ last.body.shares = Int2Num(10)
  /\ last.body.final_value = Int2Num(150)
  /\ last.body.total_return_pct = Num(1, 2, 0)
  /\ last.calc.days = Int2Num(361)

\* C16 as stated: the stub scenario with fee 0 is answered 200 with the
\* series [(2016-01-04, 10), (2016-12-30, 15)], shares 10, final_value 150,
\* total_return_pct 0.5, 361 elapsed days and a cagr of about 0.4373.
C16_StubScenario ==
  (InScenario(EmptyBody) \/ InScenario([fees_bps |-> Zero])) =>
    /\ ScenarioMetrics
    /\ CagrMayBeAbout(last.body.cagr, Num(4373, 10000, 0))

\* C16 as amended: ... and a cagr of 1.5^(365.25/361) - 1, about 0.5072.
C16_StubScenarioCagr ==
  (InScenario(EmptyBody) \/ InScenario([fees_bps |-> Zero])) =>
    /\ ScenarioMetrics
    /\ last.body.cagr = [base |-> Num(3, 2, 0), exponent |-> Num(36525, 36100, 0)]
    /\ CagrIsAbout(last.body.cagr, Num(5072, 10000, 0))

C16_Witness ==
  /\ InScenario(EmptyBody) /\ last.http.status = 200
  /\ last.calc.days = Int2Num(361)

\* C17 as stated: the stub scenario sent with fee_bps = 50 yields shares 9.95
\* and final_value 149.25, and the response reports a fee of 50 bps.
C17_FeeScenario ==
  InScenario([fee_bps |-> Int2Num(50)]) =>
    /\ last.http.status = 200
    /\ last.body.shares = Num(995, 100, 0)
    /\ last.body.final_value = Num(14925, 100, 0)
    /\ last.body.fees_bps = Int2Num(50)

\* C17 as amended: the stub scenario sent with fees_bps = 50 yields shares
\* 9.95 and final_value 149.25, and the response reports fees_bps = 50.
C17_FeesBpsScenario ==
  InScenario([fees_bps |-> Int2Num(50)]) =>
    /\ last.http.status = 200
    /\ last.body.shares = Num(995, 100, 0)
    /\ last.body.final_value = Num(14925, 100, 0)
    /\ last.body.fees_bps = Int2Num(50)

C17_Witness ==
  /\ InScenario([fees_bps |-> Int2Num(50)])
  /\ last.body.shares = Num(995, 100, 0)

\* C18: in every 200 response whose series has positive endpoint prices
\* (the amount is > 0 and the fee in 0..10000, the request being accepted),
\* the computed shares and final_value are >= 0 and the computed
\* total_return_pct is >= -1.
C18_NonNegative ==
  (/\ last.http.status = 200
   /\ Lt(Zero, last.series[1].adj_close)
   /\ Lt(Zero, last.series[Len(last.series)].adj_close)) =>
    /\ Leq(Zero, last.calc.shares)
    /\ Leq(Zero, last.calc.final_value)
    /\ Leq(Int2Num(-1), last.calc.total_return_pct)

\* C19: calls for the same (ticker, start, end) may be suspended at their
\* fetches together.  When the fetch of one resolves, the call returns the
\* complete slice of its own normalized rows (every point from its first to
\* its last date), the cache entry of the key is then that slice, whole, or,
\* if the call failed, what it was before; no other entry changes; and if the
\* call that completed just before had the same arguments and was answered
\* the same rows, both have the same outcome.
RECURSIVE PointsBetween(_, _, _)
PointsBetween(series, from, to) ==
  IF series = <<>> THEN <<>>
  ELSE (IF StrLeq(from, series[1].date) /\ StrLeq(series[1].date, to)
          THEN <<series[1]>> ELSE <<>>)
       \o PointsBetween(Tail(series), from, to)

SameArgs(a, b) ==
  a.ticker = b.ticker /\ a.startISO = b.startISO /\ a.endISO = b.endISO

C19_SameKeyConcurrency ==
  [][ (nCalls' = nCalls /\ last'.upstream = "resolved"
       /\ Len(pending') = Len(pending) - 1) =>
        LET key == CacheKey(last'.ticker, last'.startISO, last'.endISO)
            series == last'.series
        IN  /\ last'.kind = "ok" =>
                 /\ series = PointsBetween(Normalize(last'.rows),
                                           series[1].date, series[Len(series)].date)
                 /\ CacheIndex(cache', key) # 0
                 /\ cache'[CacheIndex(cache', key)].value = series
            /\ last'.kind = "err" => cache' = cache
            /\ \A j \in 1..Len(cache') :
                 cache'[j].key # key => \E k \in 1..Len(cache) : cache[k] = cache'[j]
            /\ (last.upstream = "resolved" /\ SameArgs(last, last')
                /\ last.rows = last'.rows) =>
                 last'.kind = last.kind /\ last'.series = last.series ]_vars

\* one call has stored its slice while another call for the same arguments
\* is still suspended at its own fetch
C19_Witness ==
  /\ Len(pending) = 1 /\ SameArgs(pending[1], last)
  /\ last.upstream = "resolved" /\ last.stored
  /\ CacheIndex(cache, LastKey) # 0

\* C20: the cache never holds more than CacheMax (300) entries.  A read that
\* hits and a store both make their entry the most recently used; a store of
\* a new key into a full cache removes the least recently used entry, stale
\* or not, and nothing else.
C20_CapacityAndLRU ==
  /\ [](Len(cache) <= CacheMax)
  /\ [][ (nCalls' = nCalls + 1 /\ last'.hit) =>
           LET i == CacheIndex(cache, CacheKey(last'.ticker, last'.startISO,
                                               last'.endISO))
           IN  i # 0 /\ cache' = Append(RemoveAt(cache, i), cache[i]) ]_vars
  /\ [][ (nCalls' = nCalls /\ last'.stored /\ Len(pending') < Len(pending)) =>
           LET key == CacheKey(last'.ticker, last'.startISO, last'.endISO)
               entry == [key |-> key, value |-> last'.series, start |-> now]
           IN  /\ cache'[Len(cache')] = entry
               /\ (CacheIndex(cache, key) = 0 /\ Len(cache) = CacheMax) =>
                    cache' = Append(Tail(cache), entry) ]_vars

\* a store at the end of the first entry's ttl has evicted that entry, not
\* yet expired, while the entries that remain have expired
C20_Witness ==
  /\ now > CacheTTL /\ Len(cache) = CacheMax
  /\ last.stored /\ cache[Len(cache)].start = now
  /\ CacheIndex(cache, CacheKey(TSLA, Sat0227, Wed0302)) = 0
  /\ IsStale(cache[1], now)

\* C21.  The age of the entry a starting call finds under its key, and the
\* call being one for the (ticker, start, end) that stored it: only a call
\* whose dates have the shape YYYY-MM-DD stores, and such a call has the key
\* of no other triple.
AgeOfEntry(i) == now - cache[i].start
ForStoredTriple(a) ==
  MatchesDateShape(a.startISO) /\ MatchesDateShape(a.endISO)

\* the store of a fetched window: the entry of the key is the window, its
\* ttl starting at the store
StoreReplaces ==
  (nCalls' = nCalls /\ last'.stored /\ Len(pending') < Len(pending)) =>
    LET key == CacheKey(last'.ticker, last'.startISO, last'.endISO)
    IN  /\ CacheIndex(cache', key) # 0
        /\ cache'[CacheIndex(cache', key)] =
             [key |-> key, value |-> last'.series, start |-> now]

\* C21 as stated: a cached series is returned only while its age is below
\* 24 hours; the read leaves the time of the store as it was; a call for
\* the stored triple that finds the entry aged 24 hours or more fetches
\* upstream, and its success replaces the entry.
C21_ExpiresAtTTL ==
  /\ [][ LET a == StartedCall
             i == CacheIndex(cache, CacheKey(a.ticker, a.startISO, a.endISO))
         IN  StartsCall(a) =>
               /\ last'.hit =>
                    /\ i # 0 /\ AgeOfEntry(i) < CacheTTL
                    /\ cache'[Len(cache')].key = cache[i].key
                    /\ cache'[Len(cache')].start = cache[i].start
               /\ (i # 0 /\ AgeOfEntry(i) >= CacheTTL /\ ForStoredTriple(a)) =>
                    /\ ~last'.hit
                    /\ Len(pending') = Len(pending) + 1
                    /\ pending'[Len(pending')].fetches = 1 ]_vars
  /\ [][StoreReplaces]_vars

\* C21 as amended: a cached series is returned only while its age is at
\* most 24 hours (at exactly 24 hours it is still returned); the read leaves
\* the time of the store as it was; a call for the stored triple that finds
\* the entry aged more than 24 hours fetches upstream, the expired entry
\* being dropped, and its success replaces the entry.
C21_ExpiresAfterTTL ==
  /\ [][ LET a == StartedCall
             i == CacheIndex(cache, CacheKey(a.ticker, a.startISO, a.endISO))
         IN  StartsCall(a) =>
               /\ last'.hit =>
                    /\ i # 0 /\ AgeOfEntry(i) <= CacheTTL
                    /\ cache'[Len(cache')].key = cache[i].key
                    /\ cache'[Len(cache')].start = cache[i].start
               /\ (i # 0 /\ AgeOfEntry(i) > CacheTTL /\ ForStoredTriple(a)) =>
                    /\ ~last'.hit
                    /\ Len(pending') = Len(pending) + 1
                    /\ pending'[Len(pending')].fetches = 1
                    /\ CacheIndex(cache', cache[i].key) = 0 ]_vars
  /\ [][StoreReplaces]_vars

\* a series is returned from the cache exactly 24 hours after its store
C21_Witness ==
  /\ last.hit /\ CacheIndex(cache, LastKey) # 0
  /\ now - cache[CacheIndex(cache, LastKey)].start = CacheTTL

\* C22: in every 200 response the series is the one getAdjustedSeries
\* returned, effective_start_date is the date of its first point,
\* effective_end_date the date of its last point, snap_policy is
\* 'start=next, end=previous', and fees_bps is the fee the shares were
\* computed with: shares = (amount / first adj_close) * (1 - fees_bps / 10000).
C22_Transparency ==
  last.http.status = 200 =>
    LET first == last.series[1].adj_close
        paid  == Sub(Int2Num(1), Div(last.body.fees_bps, Int2Num(10000)))
    IN  /\ last.body.series = last.series
        /\ last.body.effective_start_date = last.series[1].date
        /\ last.body.effective_end_date = last.series[Len(last.series)].date
        /\ last.body.snap_policy = "start=next, end=previous"
        /\ last.calc.shares = Mul(Div(last.raw.amount, first), paid)
        /\ last.body.fees_bps =
             (IF Has(last.raw, "fees_bps") THEN last.raw.fees_bps ELSE Zero)

\* a response with a fee whose effective dates are not the requested ones
C22_Witness ==
  /\ last.http.status = 200 /\ last.upstream = "resolved"
  /\ last.body.fees_bps = Int2Num(50)
  /\ last.body.effective_start_date # last.startISO
  /\ last.body.effective_end_date # last.endISO

\* C23: provided the upstream fetch eventually resolves or rejects, a
\* request that waits for it eventually waits no longer, and the step that
\* ends its wait answers it; every answer is either the success response
\* (200) or an error response, never both; a call that failed, at the
\* provider or elsewhere, is never answered 200; and a step answers at most
\* one request, which then is no longer waiting, so that no request is
\* answered twice.
Ended == nCalls - Len(pending)

C23_TerminalOutcome ==
  /\ (pending # <<>>) ~> (pending = <<>>)
  /\ [][ Len(pending') < Len(pending) =>
           \E i \in 1..Len(pending) :
             /\ pending' = RemoveAt(pending, i)
             /\ last'.via = "route" /\ last'.raw = pending[i].raw
             /\ last'.http.status # 0 ]_vars
  /\ [](last.via = "route" =>
             /\ last.http.status # 0
             /\ (last.http.status = 200) # (last.http.error # "")
             /\ last.kind = "err" => last.http.status # 200
             /\ last.upstream = "rejected" => last.kind = "err")
  /\ [][ /\ Ended' \in {Ended, Ended + 1}
         /\ Ended' = Ended + 1 => last'.via = "route"
         /\ Ended' = Ended => last' \in {last, NoCall} ]_vars

\* a request whose upstream fetch rejected has been answered with an error
C23_Witness ==
  /\ last.via = "route" /\ last.upstream = "rejected"
  /\ last.http.status = 500 /\ pending = <<>> /\ Ended = nCalls

\* C24: every point of a series that getAdjustedSeries returns without
\* taking it from the cache has the date and the adjusted close of a row
\* that the upstream delivered to the call, stub data on or off.
FromDeliveredRow(point, rows) ==
  \E j \in 1..Len(rows) :
    /\ RowUsable(rows[j])
    /\ point = PricePoint(fmt(rows[j].date), rows[j].adjClose)

C24_NoFabricatedData ==
  (Succeeds /\ ~last.hit) =>
    \A i \in 1..Len(last.series) : FromDeliveredRow(last.series[i], last.rows)

\* C25: in every 200 response the day count passed to cagr is finite and
\* >= 1; it is max(1, whole days from the effective start date to the
\* effective end date) when both are calendar dates, hence 1 when they are
\* the same day; and the cagr computed from it is finite (Math.pow is
\* applied to a finite base and a finite exponent).
IsCalendarDate(s) == MatchesDateShape(s) /\ fmt(toDate(s).t) = s
CivilDay(s) == DaysFromCivil(s[1].y, s[1].m, s[1].d)

C25_ElapsedDaysFloor ==
  last.http.status = 200 =>
    LET from == last.series[1].date
        to   == last.series[Len(last.series)].date
        days == last.calc.days
    IN  /\ IsFinite(days) /\ Leq(Int2Num(1), days)
        /\ (IsCalendarDate(from) /\ IsCalendarDate(to)) =>
             days = (IF CivilDay(to) - CivilDay(from) >= 1
                       THEN Int2Num(CivilDay(to) - CivilDay(from))
                       ELSE Int2Num(1))
        /\ from = to => days = Int2Num(1)
        /\ IsFinite(last.calc.cagr.base) /\ IsFinite(last.calc.cagr.exponent)

\* C26: a row that lacks its date or its adjusted close is dropped: the
\* outcome of a call whose fetch resolved (the returned series or the error)
\* is the outcome for the rows that have both fields, in the order they were
\* delivered, and the call stores iff that outcome is a series.
RECURSIVE CompleteRows(_)
CompleteRows(rows) ==
  IF rows = <<>> THEN <<>>
  ELSE (IF "date" \in DOMAIN rows[1] /\ "adjClose" \in DOMAIN rows[1]
          THEN <<rows[1]>> ELSE <<>>)
       \o CompleteRows(Tail(rows))

C26_RowsDropped ==
  last.upstream = "resolved" =>
    LET rest == SnapOutcome(CompleteRows(last.rows), last.startISO, last.endISO)
    IN  /\ last.kind = rest.kind /\ last.series = rest.series
        /\ last.status = rest.status /\ last.message = rest.message
        /\ last.stored = (rest.kind = "ok")

\* a series was returned although a row between its two rows lacked a field
C26_Witness ==
  /\ Succeeds /\ last.upstream = "resolved"
  /\ last.rows = <<Row0229, RowNoClose, Row0301>>
  /\ Len(last.series) = 2

\* C27: a series returned after a fetch is the run of all normalized points
\* dated within [requested start, requested end], in ascending date order:
\* it has every such point and no point dated before the requested start or
\* after the requested end.
C27_ExactWindow ==
  (Succeeds /\ last.upstream = "resolved") =>
    /\ last.series =
         PointsBetween(Normalize(last.rows), last.startISO, last.endISO)
    /\ \A i \in 1..Len(last.series) :
         /\ StrLeq(last.startISO, last.series[i].date)
         /\ StrLeq(last.series[i].date, last.endISO)
    /\ \A i \in 1..(Len(last.series) - 1) :
         StrLeq(last.series[i].date, last.series[i + 1].date)

\* C28 as stated: a call that fails (InvalidDate, ProviderUnavailable,
\* NoData, InsufficientDataAfterSnap) has stored nothing and removed
\* nothing, the step in which it fails leaves the cache as it was, and the
\* same call made next is not served from the cache.
C28_FailuresLeaveCache ==
  /\ [](last.kind = "err" => ~last.stored /\ ~last.purged)
  /\ [][ (Ended' = Ended + 1 /\ last'.kind = "err") => cache' = cache ]_vars
  /\ [][ (last.kind = "err" /\ nCalls' = nCalls + 1
          /\ SameArgs(StartedCall, last)) => ~last'.hit ]_vars

\* C28 as amended: a call that fails adds and replaces no cache entry, and
\* removes none but an expired entry under its own key, which its cache
\* lookup deletes: the lookup of a starting call changes the cache only by
\* that deletion (or by the reordering of a hit), and the step in which a
\* suspended call fails leaves the cache as it was.
C28_FailuresOnlyPurge ==
  /\ [](last.kind = "err" => ~last.stored)
  /\ [][ nCalls' = nCalls + 1 =>
           LET a == StartedCall
               i == CacheIndex(cache, CacheKey(a.ticker, a.startISO, a.endISO))
           IN  /\ a.purged =>
                    /\ i # 0 /\ AgeOfEntry(i) > CacheTTL
                    /\ cache' = RemoveAt(cache, i)
               /\ (~a.purged /\ ~last'.hit) => cache' = cache ]_vars
  /\ [][ (nCalls' = nCalls /\ Ended' = Ended + 1 /\ last'.kind = "err")
           => cache' = cache ]_vars

\* a call whose lookup deleted an expired entry has failed at the provider
C28_Witness ==
  /\ last.kind = "err" /\ last.purged /\ last.upstream = "rejected"
  /\ CacheIndex(cache, LastKey) = 0

\* C29: a call is served from the cache only with a series that a call for
\* the identical (ticker, start, end) stored: a call that starts right after
\* a call stored its window and finds that entry under its own key has the
\* same three arguments, and no call whose dates lack the shape YYYY-MM-DD
\* is served from the cache, so that no entry lets a call skip the date
\* check.
C29_KeyIsolation ==
  /\ [][ (/\ nCalls' = nCalls + 1
          /\ last.stored
          /\ CacheKey(StartedCall.ticker, StartedCall.startISO,
                      StartedCall.endISO) = LastKey)
           => SameArgs(StartedCall, last) ]_vars
  /\ [](last.hit =>
          MatchesDateShape(last.startISO) /\ MatchesDateShape(last.endISO))

\* C30: both requested dates are snapped to a prior trading day: the first
\* date of a returned series is never later than the requested start, and
\* its last date never later than the requested end.
C30_SnapsToPriorDay ==
  Succeeds =>
    /\ StrLeq(FirstDate, last.startISO)
    /\ StrLeq(LastDate, last.endISO)

====
